---- MODULE Spec2Model ----
(***************************************************************************)
(* Model of the account-registration backend:                              *)
(*   - the POST /accounts pipeline (checkSchema, InputValidator, the       *)
(*     controller with its three awaited database calls, the asCallback    *)
(*     continuation),                                                      *)
(*   - the application's error handler,                                    *)
(*   - the mongoose connection bootstrap.                                  *)
(* Three specifications share the variables:                               *)
(*   Spec          concurrent registration requests against the store,     *)
(*   SpecPipeline  one request through the whole middleware pipeline, over *)
(*                 every request body of the input domain,                 *)
(*   SpecBoot      the connection bootstrap and the connection events.     *)
(***************************************************************************)
EXTENDS Integers, Sequences, FiniteSets

VARIABLES
  req,          \* per request: position in the pipeline, the controller's locals, the
                \* database calls it made (dbCalls) and the store's next identifier at
                \* the time of its findOne (checkedAt)
  res,          \* per request: the response object (status, body, sends) and next(err) calls
  accounts,     \* the accounts collection
  profiles,     \* the profile collection
  nextId,       \* identifier the store assigns to the next created account
  uniqueIndex,  \* whether the store enforces a unique index on accounts.email
  connState,    \* mongoose connection: "idle" | "connecting" | "connected" | "disconnected"
  bufferCommands, \* mongoose global bufferCommands
  debugSet,     \* mongoose global debug: "unset" | "logger" | "null"
  listeners,    \* events with a listener registered on mongoose.connection
  bpc,          \* position of the bootstrap function
  uriConfigured,\* config mongoDb.uri is non-empty
  debugCfg,     \* config mongoDb.debug === true
  crashed,      \* the process was terminated by an uncaught error
  log           \* messages the bootstrap's listeners have logged

vars == <<req, res, accounts, profiles, nextId, uniqueIndex, connState,
          bufferCommands, debugSet, listeners, bpc, uriConfigured, debugCfg,
          crashed, log>>

storeVars == <<accounts, profiles, nextId>>
bootVars == <<bufferCommands, debugSet, listeners, bpc, uriConfigured, debugCfg,
              crashed, log>>

(***************************************************************************)
(* Bounds                                                                  *)
(***************************************************************************)
NReq == 2

ReqIds == 1..NReq

(***************************************************************************)
(* Request bodies                                                          *)
(***************************************************************************)
Undefined == "<undefined>"

FirstNames == {Undefined, " ", "Ana"}
LastNames == {Undefined, "Lee"}
Phones == {Undefined, "abc", "5551234"}
EmailInputs == {Undefined, "ana.example.com", "ana@example.com", "bob@example.com"}
PasswordInputs == {Undefined, "secret1", "secret2"}

Bodies ==
  [first_name : FirstNames, last_name : LastNames, contact_phone : Phones,
   email : EmailInputs, password : PasswordInputs, cnf_password : PasswordInputs]

\* the scenario body of the registration route
ValidBody ==
  [first_name |-> "Ana", last_name |-> Undefined, contact_phone |-> "5551234",
   email |-> "ana@example.com", password |-> "secret1", cnf_password |-> "secret1"]

Fields == {"first_name", "last_name", "contact_phone", "email", "password", "cnf_password"}

\* bodies of the concurrent requests: the scenario body, the same for another
\* email, and one whose confirmation differs from the password
SpecBodies ==
  {ValidBody, [ValidBody EXCEPT !.email = "bob@example.com"],
   [ValidBody EXCEPT !.cnf_password = "secret2"]}

(***************************************************************************)
(* express-validator: sanitizers and standard validators                   *)
(***************************************************************************)
toString(v) == IF v = Undefined THEN "" ELSE v

trim(s) == IF s = " " THEN "" ELSE s

isEmpty(s) == s = ""

isInt(s) == s \in {"5551234"}

isEmail(s) == s \in {"ana@example.com", "bob@example.com"}

\* a falsy value of a body field
Falsy(v) == v = Undefined \/ v = ""

Sanitized(body, f) == trim(toString(body[f]))

VErr(param, msg) == [param |-> param, msg |-> msg]

FirstNameErrors(body) ==
  IF isEmpty(Sanitized(body, "first_name"))
  THEN <<VErr("first_name", "VAL_ERRORS.USR_ACC_NEW_MISSING_F_NAME")>>
  ELSE <<>>

\* ContactPhoneErrors without the isInt rule
ContactPhoneErrorsNoIsInt(body) ==
  IF isEmpty(Sanitized(body, "contact_phone"))
  THEN <<VErr("contact_phone", "VAL_ERRORS.USR_ACC_NEW_MISSING_PHONE")>>
  ELSE <<>>

ContactPhoneErrors(body) ==
  (IF isEmpty(Sanitized(body, "contact_phone"))
   THEN <<VErr("contact_phone", "VAL_ERRORS.USR_ACC_NEW_MISSING_PHONE")>>
   ELSE <<>>)
  \o
  (IF ~isInt(Sanitized(body, "contact_phone"))
   THEN <<VErr("contact_phone", "VAL_ERRORS.USR_ACC_NEW_INVALID_PHONE")>>
   ELSE <<>>)

EmailErrors(body) ==
  (IF isEmpty(Sanitized(body, "email"))
   THEN <<VErr("email", "VAL_ERRORS.USR_ACC_NEW_MISSING_EMAIL")>>
   ELSE <<>>)
  \o
  (IF ~isEmail(Sanitized(body, "email"))
   THEN <<VErr("email", "VAL_ERRORS.USR_ACC_NEW_INVALID_EMAIL")>>
   ELSE <<>>)

PasswordErrors(body) ==
  IF isEmpty(Sanitized(body, "password"))
  THEN <<VErr("password", "VAL_ERRORS.USR_ACC_NEW_MISSING_PWD")>>
  ELSE <<>>

\* CnfPasswordMatches without the comparison
CnfPasswordMatchesNoCompare(body) == ~Falsy(body.password)

\* the custom validator: password && password === value
CnfPasswordMatches(body) ==
  /\ ~Falsy(body.password)
  /\ body.password = Sanitized(body, "cnf_password")

CnfPasswordErrors(body) ==
  (IF isEmpty(Sanitized(body, "cnf_password"))
   THEN <<VErr("cnf_password", "VAL_ERRORS.USR_ACC_NEW_MISSING_CNF_PWD")>>
   ELSE <<>>)
  \o
  (IF ~CnfPasswordMatches(body)
   THEN <<VErr("cnf_password", "VAL_ERRORS.USR_ACC_NEW_CNF_PWD_MISMATCH")>>
   ELSE <<>>)

\* last_name is optional and carries no validator
checkSchema(body) ==
  FirstNameErrors(body) \o ContactPhoneErrors(body) \o EmailErrors(body)
    \o PasswordErrors(body) \o CnfPasswordErrors(body)

ErrorParams(errs) == {errs[i].param : i \in 1..Len(errs)}

(***************************************************************************)
(* Errors                                                                  *)
(***************************************************************************)
NoErrors == [present |-> FALSE, list |-> <<>>]
SomeErrors(list) == [present |-> TRUE, list |-> list]

NoErr ==
  [name |-> "", handled |-> FALSE, conn |-> FALSE, api_status |-> 0,
   api_code |-> "", message |-> "", locale_tag |-> "", errors |-> NoErrors]

ValidationError(list) ==
  [name |-> "ValidationError", handled |-> TRUE, conn |-> FALSE, api_status |-> 400,
   api_code |-> "validation_error", message |-> "", locale_tag |-> "VALIDATION_ERROR",
   errors |-> SomeErrors(list)]

NotFound ==
  [name |-> "NotFound", handled |-> TRUE, conn |-> FALSE, api_status |-> 404,
   api_code |-> "not_found", message |-> "", locale_tag |-> "NOT_FOUND",
   errors |-> NoErrors]

\* what a database call rejects with while the connection is down and
\* command buffering is off
ConnectionErr ==
  [NoErr EXCEPT !.name = "MongoConnectionError", !.conn = TRUE]

\* what accounts.create rejects with on a unique-index violation
DuplicateKeyErr ==
  [NoErr EXCEPT !.name = "MongoError.E11000"]

isHandled(err) == err.handled

checkConnectionErr(err) == err.conn

(***************************************************************************)
(* Error handler                                                           *)
(***************************************************************************)
NoBody == [error |-> "", error_code |-> "", errors |-> NoErrors]

\* res.__(key): the localized string of a key, kept as the key
Localized(key) == key

\* the handled-error branch
HandledResponse(err) ==
  [status |-> err.api_status,
   body |-> [error |-> IF err.message # "" THEN err.message
                       ELSE Localized("DEFAULT_ERRORS." \o err.locale_tag),
             error_code |-> err.api_code,
             errors |-> IF err.errors.present THEN err.errors ELSE NoErrors],
   calls |-> <<"status", "send">>,
   forwarded |-> NoErr]

\* the mongoose connection error branch
UnavailableResponse ==
  [status |-> 503,
   body |-> [error |-> Localized("DEFAULT_ERRORS.TEMPORARILY_UNAVAILABLE"),
             error_code |-> "temporarily_unavailable",
             errors |-> NoErrors],
   calls |-> <<"status", "send">>,
   forwarded |-> NoErr]

\* the un-handled error branch: answers, then continues to the next handler
ServerErrorResponse(err) ==
  [status |-> 500,
   body |-> [error |-> Localized("DEFAULT_ERRORS.SERVER_ERROR"),
             error_code |-> "server_error",
             errors |-> NoErrors],
   calls |-> <<"status", "send", "next">>,
   forwarded |-> err]

\* ErrorResponse with the connection branch tested first
ErrorResponseConnFirst(err) ==
  IF checkConnectionErr(err) THEN UnavailableResponse
  ELSE IF isHandled(err) THEN HandledResponse(err)
  ELSE ServerErrorResponse(err)

\* ErrorResponse without the connection branch
ErrorResponseNoConnBranch(err) ==
  IF isHandled(err) THEN HandledResponse(err) ELSE ServerErrorResponse(err)

\* what the error handler does with err: the status it sets, the body it
\* sends, the order of its calls on res and next, and the error it forwards
ErrorResponse(err) ==
  IF isHandled(err) THEN HandledResponse(err)
  ELSE IF checkConnectionErr(err) THEN UnavailableResponse
  ELSE ServerErrorResponse(err)

Count(seq, x) == Cardinality({i \in 1..Len(seq) : seq[i] = x})

(***************************************************************************)
(* Store records and request state                                         *)
(***************************************************************************)
NullPassword == [hash |-> <<>>, salt |-> 0]

NullAccount == [id |-> 0, email |-> "", password |-> NullPassword]

NullProfile ==
  [account_id |-> 0, profile |-> [first_name |-> "", last_name |-> ""],
   contact |-> [phone |-> ""]]

\* accounts helper: a salted hash of the plaintext; the salt is fresh per call
initPasswordHash(password, salt) ==
  [hash |-> <<"hash", password, salt>>, salt |-> salt]

InitReq ==
  [pc |-> "idle", route |-> "", body |-> ValidBody, valErrors |-> <<>>,
   existingAcc |-> NullAccount, password |-> NullPassword,
   account |-> NullAccount, profile |-> NullProfile,
   promise |-> "pending", err |-> NoErr, dbCalls |-> <<>>, checkedAt |-> 0]

InitRes ==
  [status |-> 200, body |-> NoBody,
   json |-> [account |-> NullAccount, profile |-> NullProfile],
   calls |-> <<>>, nextErr |-> NoErr, forwarded |-> NoErr]

\* a database call of a request, with how the store answered it
Call(op, result) == [op |-> op, result |-> result]

\* a database call is answered at once unless commands are buffered while
\* the connection is down
DbAnswers == connState = "connected" \/ ~bufferCommands

DbDown == connState # "connected"

\* the application serves once the bootstrap has returned, until the process ends
Serving == bpc \in {"done", "skipped"} /\ ~crashed

(***************************************************************************)
(* POST /accounts pipeline                                                 *)
(***************************************************************************)
Receive(r, route, b) ==
  /\ Serving
  /\ req[r].pc = "idle"
  /\ req' = [req EXCEPT ![r].pc = "received", ![r].route = route, ![r].body = b]
  /\ UNCHANGED <<res, storeVars, uniqueIndex, connState, bootVars>>

\* checkSchema middleware: collects the validation errors on the request
CheckSchema(r) ==
  /\ ~crashed
  /\ req[r].pc = "received"
  /\ req[r].route = "/accounts"
  /\ req' = [req EXCEPT ![r].pc = "checked",
                        ![r].valErrors = checkSchema(req[r].body)]
  /\ UNCHANGED <<res, storeVars, uniqueIndex, connState, bootVars>>

\* validation interceptor: passes the collected errors to next, or lets the
\* controller run when there are none
InputValidator(r) ==
  /\ ~crashed
  /\ req[r].pc = "checked"
  /\ IF req[r].valErrors # <<>>
     THEN /\ req' = [req EXCEPT ![r].pc = "error"]
          /\ res' = [res EXCEPT ![r].nextErr = ValidationError(req[r].valErrors),
                                ![r].calls = Append(@, "next(err)")]
     ELSE /\ req' = [req EXCEPT ![r].pc = "findOne"]
          /\ UNCHANGED res
  /\ UNCHANGED <<storeVars, uniqueIndex, connState, bootVars>>

Reject(r, e) ==
  [req EXCEPT ![r].pc = "settled", ![r].promise = "rejected", ![r].err = e]

Called(r, op, result) == Append(req[r].dbCalls, Call(op, result))

EmailExists ==
  ValidationError(<<VErr("email", "VAL_ERRORS.USR_ACC_NEW_EMAIL_EXISTS")>>)

\* FindOne without the else: after reject the account is created all the same
FindOneNoElse(r) ==
  /\ ~crashed
  /\ req[r].pc = "findOne"
  /\ DbAnswers
  /\ LET found == {a \in accounts : a.email = req[r].body.email}
     IN IF DbDown
        THEN req' = [Reject(r, ConnectionErr)
                       EXCEPT ![r].dbCalls = Called(r, "accounts.findOne", "disconnected")]
        ELSE \E a \in (IF found # {} THEN found ELSE {NullAccount}) :
               req' = [req EXCEPT ![r].pc = "createAccount",
                                  ![r].promise = IF found # {} THEN "rejected" ELSE @,
                                  ![r].err = IF found # {} THEN EmailExists ELSE @,
                                  ![r].existingAcc = a,
                                  ![r].dbCalls = Called(r, "accounts.findOne", "ok"),
                                  ![r].checkedAt = nextId,
                                  ![r].password =
                                     initPasswordHash(req[r].body.password, r)]
  /\ UNCHANGED <<res, storeVars, uniqueIndex, connState, bootVars>>

\* FindOne with the query on another field of the body
FindOneWrongKey(r) ==
  /\ ~crashed
  /\ req[r].pc = "findOne"
  /\ DbAnswers
  /\ LET found == {a \in accounts : a.email = req[r].body.first_name}
     IN IF DbDown
        THEN req' = [Reject(r, ConnectionErr)
                       EXCEPT ![r].dbCalls = Called(r, "accounts.findOne", "disconnected")]
        ELSE IF found # {}
        THEN \E a \in found :
               req' = [Reject(r, EmailExists)
                         EXCEPT ![r].dbCalls = Called(r, "accounts.findOne", "ok"),
                                ![r].checkedAt = nextId,
                                ![r].existingAcc = a]
        ELSE req' = [req EXCEPT ![r].pc = "createAccount",
                                ![r].dbCalls = Called(r, "accounts.findOne", "ok"),
                                ![r].checkedAt = nextId,
                                ![r].password =
                                   initPasswordHash(req[r].body.password, r)]
  /\ UNCHANGED <<res, storeVars, uniqueIndex, connState, bootVars>>

\* await accounts.findOne({email}) and the code up to the next await
FindOne(r) ==
  /\ ~crashed
  /\ req[r].pc = "findOne"
  /\ DbAnswers
  /\ LET found == {a \in accounts : a.email = req[r].body.email}
     IN IF DbDown
        THEN req' = [Reject(r, ConnectionErr)
                       EXCEPT ![r].dbCalls = Called(r, "accounts.findOne", "disconnected")]
        ELSE IF found # {}
        THEN \E a \in found :
               req' = [Reject(r, EmailExists)
                         EXCEPT ![r].dbCalls = Called(r, "accounts.findOne", "ok"),
                                ![r].checkedAt = nextId,
                                ![r].existingAcc = a]
        ELSE req' = [req EXCEPT ![r].pc = "createAccount",
                                ![r].dbCalls = Called(r, "accounts.findOne", "ok"),
                                ![r].checkedAt = nextId,
                                ![r].password =
                                   initPasswordHash(req[r].body.password, r)]
  /\ UNCHANGED <<res, storeVars, uniqueIndex, connState, bootVars>>

\* await accounts.create({email, password}) and the code up to the next await
CreateAccount(r) ==
  /\ ~crashed
  /\ req[r].pc = "createAccount"
  /\ DbAnswers
  /\ LET account == [id |-> nextId, email |-> req[r].body.email,
                     password |-> req[r].password]
     IN IF DbDown
        THEN /\ req' = [Reject(r, ConnectionErr)
                          EXCEPT ![r].dbCalls = Called(r, "accounts.create", "disconnected")]
             /\ UNCHANGED storeVars
        ELSE IF uniqueIndex /\ \E a \in accounts : a.email = account.email
        THEN /\ req' = [Reject(r, DuplicateKeyErr)
                          EXCEPT ![r].dbCalls = Called(r, "accounts.create", "duplicate")]
             /\ UNCHANGED storeVars
        ELSE /\ accounts' = accounts \cup {account}
             /\ nextId' = nextId + 1
             /\ req' = [req EXCEPT ![r].pc = "createProfile",
                                   ![r].dbCalls = Called(r, "accounts.create", "ok"),
                                   ![r].account = account]
             /\ UNCHANGED profiles
  /\ UNCHANGED <<res, uniqueIndex, connState, bootVars>>

\* NewProfile with the identifier read from the wrong local
NewProfileWrongId(r) ==
  [account_id |-> req[r].existingAcc.id,
   profile |-> [first_name |-> req[r].body.first_name,
                last_name |-> req[r].body.last_name],
   contact |-> [phone |-> req[r].body.contact_phone]]

NewProfile(r) ==
  [account_id |-> req[r].account.id,
   profile |-> [first_name |-> req[r].body.first_name,
                last_name |-> req[r].body.last_name],
   contact |-> [phone |-> req[r].body.contact_phone]]

\* CreateProfile that deletes the account again when profile.create fails
CreateProfileCompensates(r) ==
  /\ ~crashed
  /\ req[r].pc = "createProfile"
  /\ DbAnswers
  /\ IF DbDown
     THEN /\ req' = [Reject(r, ConnectionErr)
                       EXCEPT ![r].dbCalls = Called(r, "profile.create", "disconnected")]
          /\ accounts' = accounts \ {req[r].account}
          /\ UNCHANGED profiles
     ELSE /\ profiles' = profiles \cup {NewProfile(r)}
          /\ req' = [req EXCEPT ![r].pc = "settled", ![r].promise = "resolved",
                                ![r].dbCalls = Called(r, "profile.create", "ok"),
                                ![r].profile = NewProfile(r)]
          /\ UNCHANGED accounts
  /\ UNCHANGED <<res, nextId, uniqueIndex, connState, bootVars>>

\* await profile.create({account_id, profile, contact}) and resolve
CreateProfile(r) ==
  /\ ~crashed
  /\ req[r].pc = "createProfile"
  /\ DbAnswers
  /\ IF DbDown
     THEN /\ req' = [Reject(r, ConnectionErr)
                       EXCEPT ![r].dbCalls = Called(r, "profile.create", "disconnected")]
          /\ UNCHANGED profiles
     ELSE /\ profiles' = profiles \cup {NewProfile(r)}
          /\ req' = [req EXCEPT ![r].pc = "settled", ![r].promise = "resolved",
                                ![r].dbCalls = Called(r, "profile.create", "ok"),
                                ![r].profile = NewProfile(r)]
  /\ UNCHANGED <<res, accounts, nextId, uniqueIndex, connState, bootVars>>

\* AsCallback without the else: res.json is called after next(err) too
AsCallbackNoElse(r) ==
  /\ ~crashed
  /\ req[r].pc = "settled"
  /\ IF req[r].promise = "rejected"
     THEN /\ req' = [req EXCEPT ![r].pc = "error"]
          /\ res' = [res EXCEPT ![r].nextErr = req[r].err,
                                ![r].json = [account |-> req[r].account,
                                             profile |-> req[r].profile],
                                ![r].calls = @ \o <<"next(err)", "json">>]
     ELSE /\ req' = [req EXCEPT ![r].pc = "done"]
          /\ res' = [res EXCEPT ![r].json = [account |-> req[r].account,
                                             profile |-> req[r].profile],
                                ![r].calls = Append(@, "json")]
  /\ UNCHANGED <<storeVars, uniqueIndex, connState, bootVars>>

\* .asCallback((err, response) => ...)
AsCallback(r) ==
  /\ ~crashed
  /\ req[r].pc = "settled"
  /\ IF req[r].promise = "rejected"
     THEN /\ req' = [req EXCEPT ![r].pc = "error"]
          /\ res' = [res EXCEPT ![r].nextErr = req[r].err,
                                ![r].calls = Append(@, "next(err)")]
     ELSE /\ req' = [req EXCEPT ![r].pc = "done"]
          /\ res' = [res EXCEPT ![r].json = [account |-> req[r].account,
                                             profile |-> req[r].profile],
                                ![r].calls = Append(@, "json")]
  /\ UNCHANGED <<storeVars, uniqueIndex, connState, bootVars>>

\* not found handler: a request no route answered
NotFoundHandler(r) ==
  /\ ~crashed
  /\ req[r].pc = "received"
  /\ req[r].route # "/accounts"
  /\ req' = [req EXCEPT ![r].pc = "error"]
  /\ res' = [res EXCEPT ![r].nextErr = NotFound, ![r].calls = Append(@, "next(err)")]
  /\ UNCHANGED <<storeVars, uniqueIndex, connState, bootVars>>

\* the error handler of the application
ErrorHandler(r) ==
  /\ ~crashed
  /\ req[r].pc = "error"
  /\ LET out == ErrorResponse(res[r].nextErr)
     IN /\ res' = [res EXCEPT ![r].status = out.status, ![r].body = out.body,
                              ![r].calls = @ \o out.calls,
                              ![r].forwarded = out.forwarded]
        /\ req' = [req EXCEPT ![r].pc = IF Count(out.calls, "next") > 0
                                        THEN "forwarded" ELSE "responded"]
  /\ UNCHANGED <<storeVars, uniqueIndex, connState, bootVars>>

\* a middleware ahead of the routes (the JSON body parser) fails the request
BodyParserError(r, e) ==
  /\ Serving
  /\ req[r].pc = "idle"
  /\ req' = [req EXCEPT ![r].pc = "error"]
  /\ res' = [res EXCEPT ![r].nextErr = e, ![r].calls = Append(@, "next(err)")]
  /\ UNCHANGED <<storeVars, uniqueIndex, connState, bootVars>>

(***************************************************************************)
(* Connection bootstrap                                                    *)
(***************************************************************************)
LogMsg(event) == "core.mongoose - connection - " \o event

\* Logger call of the listener registered for event, if any
Logged(event) == IF event \in listeners THEN log \cup {LogMsg(event)} ELSE log

\* BootCheckUri without the early return
BootCheckUriNoReturn ==
  /\ bpc = "start"
  /\ bpc' = "on_connected"
  /\ UNCHANGED <<req, res, storeVars, uniqueIndex, connState, bufferCommands,
                 debugSet, listeners, uriConfigured, debugCfg, crashed, log>>

\* if (!MONGO_DB_URI) return;
BootCheckUri ==
  /\ bpc = "start"
  /\ bpc' = IF uriConfigured THEN "on_connected" ELSE "skipped"
  /\ UNCHANGED <<req, res, storeVars, uniqueIndex, connState, bufferCommands,
                 debugSet, listeners, uriConfigured, debugCfg, crashed, log>>

\* mongoose.connection.on(event, ...), in the order of the source
BootOn(event, at, then) ==
  /\ bpc = at
  /\ listeners' = listeners \cup {event}
  /\ bpc' = then
  /\ UNCHANGED <<req, res, storeVars, uniqueIndex, connState, bufferCommands,
                 debugSet, uriConfigured, debugCfg, crashed, log>>

BootOnConnected == BootOn("connected", "on_connected", "on_disconnected")

BootOnDisconnected == BootOn("disconnected", "on_disconnected", "on_reconnect")

BootOnReconnect == BootOn("reconnect", "on_reconnect", "on_error")

BootOnError == BootOn("error", "on_error", "set_debug")

\* mongoose.set('debug', ...)
BootSetDebug ==
  /\ bpc = "set_debug"
  /\ debugSet' = IF debugCfg THEN "logger" ELSE "null"
  /\ bpc' = "set_bufferCommands"
  /\ UNCHANGED <<req, res, storeVars, uniqueIndex, connState, bufferCommands,
                 listeners, uriConfigured, debugCfg, crashed, log>>

\* mongoose.set('bufferCommands', false)
BootSetBufferCommands ==
  /\ bpc = "set_bufferCommands"
  /\ bufferCommands' = FALSE
  /\ bpc' = "connect"
  /\ UNCHANGED <<req, res, storeVars, uniqueIndex, connState, debugSet,
                 listeners, uriConfigured, debugCfg, crashed, log>>

\* await mongoose.connect(...): the attempt starts
BootConnect ==
  /\ bpc = "connect"
  /\ connState' = "connecting"
  /\ bpc' = "awaiting"
  /\ UNCHANGED <<req, res, storeVars, uniqueIndex, bufferCommands, debugSet,
                 listeners, uriConfigured, debugCfg, crashed, log>>

\* the initial connection opens: 'connected' is emitted and the await returns
ConnectSucceeds ==
  /\ ~crashed
  /\ connState = "connecting"
  /\ connState' = "connected"
  /\ log' = Logged("connected")
  /\ bpc' = IF bpc = "awaiting" THEN "done" ELSE bpc
  /\ UNCHANGED <<req, res, storeVars, uniqueIndex, bufferCommands, debugSet,
                 listeners, uriConfigured, debugCfg, crashed>>

\* the 'error' listener: logs and throws, which ends the process
OnErrorEvent ==
  /\ log' = Logged("error")
  /\ crashed' = (crashed \/ "error" \in listeners)

\* the initial connection fails: 'error' is emitted and the await throws
ConnectFails ==
  /\ ~crashed
  /\ connState = "connecting"
  /\ connState' = "disconnected"
  /\ OnErrorEvent
  /\ bpc' = IF bpc = "awaiting" THEN "rejected" ELSE bpc
  /\ UNCHANGED <<req, res, storeVars, uniqueIndex, bufferCommands, debugSet,
                 listeners, uriConfigured, debugCfg>>

\* the connection drops: 'disconnected' is emitted
OnDisconnected ==
  /\ ~crashed
  /\ connState = "connected"
  /\ connState' = "disconnected"
  /\ log' = Logged("disconnected")
  /\ UNCHANGED <<req, res, storeVars, uniqueIndex, bufferCommands, debugSet,
                 listeners, bpc, uriConfigured, debugCfg, crashed>>

\* autoReconnect brings the connection back: 'reconnect' is emitted
OnReconnect ==
  /\ ~crashed
  /\ connState = "disconnected"
  /\ bpc = "done"
  /\ connState' = "connected"
  /\ log' = Logged("reconnect")
  /\ UNCHANGED <<req, res, storeVars, uniqueIndex, bufferCommands, debugSet,
                 listeners, bpc, uriConfigured, debugCfg, crashed>>

\* an open connection reports an error: 'error' is emitted
OnError ==
  /\ ~crashed
  /\ connState \in {"connected", "disconnected"}
  /\ bpc = "done"
  /\ OnErrorEvent
  /\ UNCHANGED <<req, res, storeVars, uniqueIndex, connState, bufferCommands,
                 debugSet, listeners, bpc, uriConfigured, debugCfg>>

(***************************************************************************)
(* Specifications                                                          *)
(***************************************************************************)
AllListeners == {"connected", "disconnected", "reconnect", "error"}

\* the state once the bootstrap has connected and the application serves
Booted ==
  /\ connState = "connected"
  /\ bufferCommands = FALSE
  /\ debugSet = "null"
  /\ listeners = AllListeners
  /\ bpc = "done"
  /\ uriConfigured = TRUE
  /\ debugCfg = FALSE
  /\ crashed = FALSE
  /\ log = {LogMsg("connected")}

EmptyStore ==
  /\ accounts = {}
  /\ profiles = {}
  /\ nextId = 1

Init ==
  /\ req = [r \in ReqIds |-> InitReq]
  /\ res = [r \in ReqIds |-> InitRes]
  /\ EmptyStore
  /\ uniqueIndex \in BOOLEAN
  /\ Booted

Next ==
  \/ \E r \in ReqIds, b \in SpecBodies : Receive(r, "/accounts", b)
  \/ \E r \in ReqIds : CheckSchema(r)
  \/ \E r \in ReqIds : InputValidator(r)
  \/ \E r \in ReqIds : FindOne(r)
  \/ \E r \in ReqIds : CreateAccount(r)
  \/ \E r \in ReqIds : CreateProfile(r)
  \/ \E r \in ReqIds : AsCallback(r)
  \/ \E r \in ReqIds : ErrorHandler(r)
  \/ OnDisconnected
  \/ OnReconnect

Spec == Init /\ [][Next]_vars

\* an account registered earlier, with its profile
SeedAccount ==
  [id |-> 1, email |-> "ana@example.com",
   password |-> initPasswordHash("secret2", 0)]

SeedProfile ==
  [account_id |-> 1, profile |-> [first_name |-> "Ana", last_name |-> "Lee"],
   contact |-> [phone |-> "5551234"]]

SeededStore ==
  /\ accounts = {SeedAccount}
  /\ profiles = {SeedProfile}
  /\ nextId = 2

\* errors a middleware ahead of the routes may pass on
UpstreamErrs ==
  {[NoErr EXCEPT !.name = "UpstreamError", !.handled = h, !.conn = c,
                 !.api_status = IF h THEN 400 ELSE 0,
                 !.api_code = IF h THEN "bad_request" ELSE "",
                 !.locale_tag = IF h THEN "BAD_REQUEST" ELSE "",
                 !.message = m, !.errors = e] :
     h \in BOOLEAN, c \in BOOLEAN, m \in {"", "malformed body"},
     e \in {NoErrors, SomeErrors(<<VErr("body", "malformed body")>>)}}

InitPipeline ==
  /\ req = [r \in ReqIds |-> InitReq]
  /\ res = [r \in ReqIds |-> InitRes]
  /\ EmptyStore \/ SeededStore
  /\ uniqueIndex \in BOOLEAN
  /\ Booted

\* one request, over every body of the input domain, every route and every
\* upstream error
NextPipeline ==
  \/ \E b \in Bodies : Receive(1, "/accounts", b)
  \/ Receive(1, "/unknown", ValidBody)
  \/ \E e \in UpstreamErrs : BodyParserError(1, e)
  \/ CheckSchema(1)
  \/ InputValidator(1)
  \/ FindOne(1)
  \/ CreateAccount(1)
  \/ CreateProfile(1)
  \/ AsCallback(1)
  \/ NotFoundHandler(1)
  \/ ErrorHandler(1)
  \/ OnDisconnected
  \/ OnReconnect

SpecPipeline == InitPipeline /\ [][NextPipeline]_vars

InitBoot ==
  /\ req = [r \in ReqIds |-> InitReq]
  /\ res = [r \in ReqIds |-> InitRes]
  /\ EmptyStore
  /\ uniqueIndex \in BOOLEAN
  /\ connState = "idle"
  /\ bufferCommands = TRUE
  /\ debugSet = "unset"
  /\ listeners = {}
  /\ bpc = "start"
  /\ uriConfigured \in BOOLEAN
  /\ debugCfg \in BOOLEAN
  /\ crashed = FALSE
  /\ log = {}

\* the bootstrap, the connection events, and one registration request
NextBoot ==
  \/ BootCheckUri
  \/ BootOnConnected
  \/ BootOnDisconnected
  \/ BootOnReconnect
  \/ BootOnError
  \/ BootSetDebug
  \/ BootSetBufferCommands
  \/ BootConnect
  \/ ConnectSucceeds
  \/ ConnectFails
  \/ OnDisconnected
  \/ OnReconnect
  \/ OnError
  \/ Receive(1, "/accounts", ValidBody)
  \/ CheckSchema(1)
  \/ InputValidator(1)
  \/ FindOne(1)
  \/ CreateAccount(1)
  \/ CreateProfile(1)
  \/ AsCallback(1)
  \/ ErrorHandler(1)

SpecBoot == InitBoot /\ [][NextBoot]_vars

(***************************************************************************)
(* Properties                                                              *)
(***************************************************************************)
Last(seq) == seq[Len(seq)]

\* the operations of the database calls request r made, in order
Ops(r) == [i \in 1..Len(req[r].dbCalls) |-> req[r].dbCalls[i].op]

AllOps == <<"accounts.findOne", "accounts.create", "profile.create">>

\* the last database call of request r was op and the store answered result
LastCall(r, op, result) ==
  req[r].dbCalls # <<>> /\ Last(req[r].dbCalls) = Call(op, result)

\* the controller of request r has started
ReachedController(r) ==
  req[r].pc \in {"findOne", "createAccount", "createProfile", "settled"}
    \/ req[r].dbCalls # <<>>

\* the route pipeline of request r has ended: res.json or next(err) was called
PipelineEnded(r) == req[r].pc \in {"done", "error", "responded", "forwarded"}

\* the error handler has answered request r
Answered(r) == req[r].pc \in {"responded", "forwarded"}

ProfilesOf(id) == {p \in profiles : p.account_id = id}

\* a database call of request r hit the disconnection
HitDisconnection(r) ==
  \E i \in 1..Len(req[r].dbCalls) : req[r].dbCalls[i].result = "disconnected"

\* profile.create of request r failed after its accounts.create succeeded
ProfileCreateFailed(r) ==
  \E i \in 2..Len(req[r].dbCalls) :
    /\ req[r].dbCalls[i].op = "profile.create"
    /\ req[r].dbCalls[i].result # "ok"
    /\ req[r].dbCalls[i - 1] = Call("accounts.create", "ok")

\* C1: a registration request that finds its email unused and meets no store
\* failure succeeds: it made exactly one accounts.create and one
\* profile.create, both records are stored, the profile's account_id is the
\* identifier of the account just created, and res.json carries both records.
\* A controller run fails only on a found account or a store failure, and
\* every stored account and profile was created by exactly one request.
C1_RegistrationCreatesBoth ==
  /\ \A r \in ReqIds :
       /\ req[r].pc = "done" =>
            /\ Ops(r) = AllOps
            /\ \A i \in 1..3 : req[r].dbCalls[i].result = "ok"
            /\ req[r].existingAcc = NullAccount
            /\ req[r].account \in accounts
            /\ req[r].account.id # 0
            /\ req[r].account.email = req[r].body.email
            /\ req[r].profile \in profiles
            /\ req[r].profile.account_id = req[r].account.id
            /\ req[r].profile.profile.first_name = req[r].body.first_name
            /\ Cardinality(ProfilesOf(req[r].account.id)) = 1
            /\ Cardinality({a \in accounts : a.id = req[r].account.id}) = 1
            /\ res[r].json = [account |-> req[r].account, profile |-> req[r].profile]
            /\ res[r].calls = <<"json">>
       /\ PipelineEnded(r) /\ ReachedController(r) /\ req[r].pc # "done" =>
            \/ req[r].existingAcc # NullAccount
            \/ Last(req[r].dbCalls).result # "ok"
  /\ Cardinality(accounts) = Cardinality({r \in ReqIds : req[r].account # NullAccount})
  /\ Cardinality(profiles) = Cardinality({r \in ReqIds : req[r].profile # NullProfile})

C1_Witness ==
  \E r \in ReqIds :
    /\ req[r].pc = "done"
    /\ res[r].json.account.email = "ana@example.com"
    /\ res[r].json.profile.profile.first_name = "Ana"

C3_NoPartialWriteAnyCall ==
  \A r \in ReqIds :
    HitDisconnection(r) =>
      /\ Answered(r) =>
           /\ res[r].status = 503
           /\ res[r].body.error_code = "temporarily_unavailable"
      /\ req[r].account \in accounts => ProfilesOf(req[r].account.id) # {}

\* C3 (amended): a request whose database call hits the disconnection is
\* answered 503 temporarily_unavailable, once, and is not forwarded; it has
\* written nothing when the call that failed is findOne or accounts.create,
\* and when it is profile.create its account is stored without a profile.
C3_DisconnectedAnswers503 ==
  \A r \in ReqIds :
    HitDisconnection(r) =>
      /\ req[r].pc \in {"settled", "error", "responded"}
      /\ req[r].pc = "responded" =>
           /\ res[r].status = 503
           /\ res[r].body.error_code = "temporarily_unavailable"
           /\ res[r].calls = <<"next(err)", "status", "send">>
      /\ req[r].profile = NullProfile
      /\ ProfilesOf(req[r].account.id) = {}
      /\ req[r].promise = "rejected"
      /\ req[r].err = ConnectionErr
      /\ Last(req[r].dbCalls).result = "disconnected"
      /\ Last(req[r].dbCalls).op \in {"accounts.findOne", "accounts.create"} =>
           req[r].account = NullAccount
      /\ Last(req[r].dbCalls).op = "profile.create" => req[r].account \in accounts

C3_Witness ==
  \E r \in ReqIds :
    /\ HitDisconnection(r)
    /\ req[r].pc = "responded"
    /\ LastCall(r, "profile.create", "disconnected")
    /\ req[r].account \in accounts

\* C4: findOne and accounts.create are separate steps. With a unique index on
\* email the store holds at most one account per email. Without one, every
\* stored account was still created by a request whose findOne had found
\* none, and another account with the same email can only have been created
\* after that findOne (in the window between the check and the create).
C4_CheckThenCreate ==
  /\ uniqueIndex =>
       \A a, b \in accounts : a.email = b.email => a = b
  /\ \A r \in ReqIds :
       req[r].account # NullAccount =>
         /\ req[r].existingAcc = NullAccount
         /\ req[r].account \in accounts
         /\ req[r].checkedAt <= req[r].account.id
         /\ \A b \in accounts :
              b.email = req[r].account.email /\ b # req[r].account =>
                /\ ~uniqueIndex
                /\ b.id >= req[r].checkedAt

\* two accounts with the same email, in a store without a unique index
C4_Witness ==
  /\ ~uniqueIndex
  /\ \E a, b \in accounts : a # b /\ a.email = b.email

\* C7: when profile.create fails after accounts.create succeeded, the account
\* stays stored without a profile, the request made no further database call
\* (no delete, no retry), and it ends in the error passed to next, not in a
\* success response.
C7_OrphanAccountKept ==
  \A r \in ReqIds :
    ProfileCreateFailed(r) =>
      /\ req[r].promise = "rejected"
      /\ req[r].account # NullAccount
      /\ req[r].account \in accounts
      /\ ProfilesOf(req[r].account.id) = {}
      /\ Ops(r) = AllOps
      /\ Count(res[r].calls, "json") = 0
      /\ req[r].pc \in {"settled", "error", "responded", "forwarded"}
      /\ PipelineEnded(r) =>
           /\ res[r].nextErr = req[r].err
           /\ Count(res[r].calls, "next(err)") = 1

C7_Witness ==
  \E r \in ReqIds :
    /\ ProfileCreateFailed(r)
    /\ Answered(r)
    /\ \E q \in ReqIds : q # r /\ req[q].pc = "done"

ControllerStep(r) ==
  FindOne(r) \/ CreateAccount(r) \/ CreateProfile(r) \/ AsCallback(r)

\* C10: every stored profile references a stored account, created by the same
\* request before it; and a request that reached the controller has called
\* res.json or next(err) at most once, exactly one of them once its controller
\* has ended, and until then its next step can always be taken.
C10_ProfilesAndOutcomes ==
  /\ \A p \in profiles :
       /\ \E a \in accounts : a.id = p.account_id
       /\ \E r \in ReqIds :
            /\ req[r].profile = p
            /\ req[r].account.id = p.account_id
            /\ req[r].account \in accounts
  /\ \A r \in ReqIds :
       ReachedController(r) =>
         /\ Count(res[r].calls, "json") + Count(res[r].calls, "next(err)") =
              IF PipelineEnded(r) THEN 1 ELSE 0
         /\ req[r].pc = "done" <=> Count(res[r].calls, "json") = 1
         /\ ~PipelineEnded(r) => ENABLED ControllerStep(r)

C10_Witness ==
  \E r, q \in ReqIds :
    /\ req[r].pc = "done"
    /\ Answered(q)
    /\ Ops(q) = AllOps
    /\ profiles # {}

\* checkSchema has run on request r
SchemaRan(r) == req[r].route = "/accounts" /\ req[r].pc \notin {"idle", "received"}

ValidBodies ==
  {b \in Bodies :
     /\ b.first_name = "Ana"
     /\ b.contact_phone = "5551234"
     /\ b.email \in {"ana@example.com", "bob@example.com"}
     /\ b.password \in {"secret1", "secret2"}
     /\ b.cnf_password = b.password}

\* the single violations: a field and the value that breaks it
Violations ==
  {<<"first_name", Undefined>>,
   <<"contact_phone", Undefined>>, <<"contact_phone", "abc">>,
   <<"email", Undefined>>, <<"email", "ana.example.com">>,
   <<"password", Undefined>>,
   <<"cnf_password", Undefined>>}

\* C8: with every other field valid, a missing first_name, a missing or
\* non-integer contact_phone, a missing or malformed email, a missing password
\* and a missing cnf_password each give a validation failure naming that field;
\* a valid body, with or without last_name, gives none.
C8_EachViolationNamesItsField ==
  \A r \in ReqIds :
    SchemaRan(r) =>
      /\ \A v \in Violations :
           (\E b \in ValidBodies : req[r].body = [b EXCEPT ![v[1]] = v[2]]) =>
             v[1] \in ErrorParams(req[r].valErrors)
      /\ req[r].body \in ValidBodies => req[r].valErrors = <<>>

C8_Witness ==
  \E r \in ReqIds :
    /\ SchemaRan(r)
    /\ req[r].body = [ValidBody EXCEPT !.contact_phone = "abc"]
    /\ ErrorParams(req[r].valErrors) = {"contact_phone"}

\* position of the first x in seq, 0 when there is none
IndexOf(seq, x) ==
  IF Count(seq, x) = 0 THEN 0
  ELSE CHOOSE i \in 1..Len(seq) : seq[i] = x /\ \A j \in 1..(i - 1) : seq[j] # x

\* C6: the error handler answers every error once, by the first category that
\* applies: a handled error with its own api_status and api_code (and its
\* errors when it has any), else a connection error with 503
\* temporarily_unavailable, else 500 server_error; only in the last case is the
\* error forwarded to the next handler, after the response was sent.
C6_ErrorHandlerClassifiesOnce ==
  \A r \in ReqIds :
    LET e == res[r].nextErr
        sent == Count(res[r].calls, "send")
        fwd == Count(res[r].calls, "next")
    IN /\ ~Answered(r) => sent = 0 /\ fwd = 0
       /\ Answered(r) =>
            /\ sent = 1
            /\ Count(res[r].calls, "status") = 1
            /\ IF isHandled(e)
               THEN /\ res[r].status = e.api_status
                    /\ res[r].body.error_code = e.api_code
                    /\ res[r].body.errors = IF e.errors.present THEN e.errors ELSE NoErrors
                    /\ res[r].body.error # ""
                    /\ e.message # "" => res[r].body.error = e.message
                    /\ fwd = 0
               ELSE IF checkConnectionErr(e)
               THEN /\ res[r].status = 503
                    /\ res[r].body.error_code = "temporarily_unavailable"
                    /\ res[r].body.errors = NoErrors
                    /\ fwd = 0
               ELSE /\ res[r].status = 500
                    /\ res[r].body.error_code = "server_error"
                    /\ res[r].body.errors = NoErrors
                    /\ fwd = 1
                    /\ res[r].forwarded = e
                    /\ IndexOf(res[r].calls, "send") < IndexOf(res[r].calls, "next")
            /\ fwd = 0 => res[r].forwarded = NoErr
            /\ req[r].pc = "forwarded" <=> fwd = 1

\* an error that is both a handled error and a connection error was answered
C6_Witness ==
  \E r \in ReqIds :
    /\ req[r].pc = "responded"
    /\ isHandled(res[r].nextErr)
    /\ checkConnectionErr(res[r].nextErr)
    /\ res[r].status = 400

\* the state part of the bootstrap property
C9_Inv ==
  /\ ~uriConfigured =>
       /\ bpc \in {"start", "skipped"}
       /\ listeners = {}
       /\ debugSet = "unset"
       /\ bufferCommands = TRUE
       /\ connState = "idle"
       /\ log = {}
       /\ ~crashed
  /\ connState # "idle" =>
       /\ "error" \in listeners
       /\ bufferCommands = FALSE
  /\ bpc = "rejected" => crashed
  /\ LogMsg("error") \in log => crashed
  /\ bpc = "done" => listeners = AllListeners /\ connState # "idle"

\* C9: without a configured URI the bootstrap returns having registered no
\* listener, changed no setting and started no connection. With one, the
\* error listener is registered and command buffering is off before the
\* connection attempt starts, a failed initial connect and every logged
\* connection error end the process, and an ended process takes no further
\* step.
C9_BootstrapFailsFast == []C9_Inv /\ [][~crashed]_vars

C9_Witness ==
  /\ crashed
  /\ bpc = "done"
  /\ LogMsg("error") \in log
  /\ req[1].pc = "createProfile"

====
